---- MODULE Spec2Model ----
(***************************************************************************)
(* Model of the asynchronous command-execution engine of mcp-cmd:          *)
(*   - the record store            (src/db/ouputs.ts)                      *)
(*   - runCommand / cancelCommand  (src/command.ts)                        *)
(*   - CommandWorkerPool           (src/workers/worker-pool.ts)            *)
(*   - the worker thread           (src/workers/command-worker.ts)         *)
(*                                                                         *)
(* Text is a sequence of code points, raw data a sequence of bytes.        *)
(* Every await on the store is a suspension point: a store operation is    *)
(* started by its handler and completes in a later step, and operations    *)
(* that are in flight complete in any order.                               *)
(***************************************************************************)
EXTENDS Integers, Sequences, FiniteSets, TLC

\* ------------------------------------------------------------------ bounds
MaxTasks == 2        \* number of runCommand calls
MaxChunks == 1       \* number of chunks the processes of LiveSpec write
MaxCancels == 1      \* number of cancelCommand calls
MaxTerminates == 1   \* number of terminate() calls
MaxFaults == 1       \* number of worker error events
MaxPool == 2         \* the pool is constructed with maxWorkers in 1..MaxPool
MaxStreamLen == 3    \* number of chunks of the stream of StreamSpec
DataChunks == 2      \* number of chunks of the one process of DataSpec
MaxIds == 3          \* largest number of runCommand calls of a specification
MaxShutdowns == 2    \* number of terminate() calls of ShutdownSpec

Ids == 1..MaxIds
WorkerIds == 0..(MaxPool - 1)
NoTask == 0
NoWorker == -1
DeadWorker == -2     \* a worker object that was terminated

\* --------------------------------------------------------------- text, bytes
ReplacementChar == 65533

\* TextEncoder.encode: code points to UTF-8 bytes.
RECURSIVE TextEncode(_)
TextEncode(s) ==
  IF Len(s) = 0 THEN <<>>
  ELSE LET c == Head(s)
           b == IF c < 128 THEN <<c>>
                ELSE IF c < 2048 THEN <<192 + (c \div 64), 128 + (c % 64)>>
                ELSE <<224 + (c \div 4096), 128 + ((c \div 64) % 64),
                       128 + (c % 64)>>
       IN b \o TextEncode(Tail(s))

IsCont(b) == b >= 128 /\ b <= 191
IsLead2(b) == b >= 194 /\ b <= 223
IsLead3(b) == b >= 224 /\ b <= 239

\* The second byte a three-byte sequence may have after the lead byte b.
IsSecond3(b, c) ==
  IF b = 224 THEN c >= 160 /\ c <= 191
  ELSE IF b = 237 THEN c >= 128 /\ c <= 159
  ELSE IsCont(c)

\* TextDecoder.decode(value, {stream: true}): `pending` is the incomplete
\* sequence kept from the previous chunk.  Bytes are drawn from ASCII, the
\* two-byte and three-byte sequences and the byte 0xFF, which is never valid.
RECURSIVE Utf8Decode(_)
Utf8Decode(b) ==
  IF Len(b) = 0 THEN [text |-> <<>>, pending |-> <<>>]
  ELSE IF b[1] < 128 THEN
    LET r == Utf8Decode(Tail(b))
    IN [text |-> <<b[1]>> \o r.text, pending |-> r.pending]
  ELSE IF IsLead2(b[1]) THEN
    IF Len(b) = 1 THEN [text |-> <<>>, pending |-> b]
    ELSE IF IsCont(b[2]) THEN
      LET r == Utf8Decode(SubSeq(b, 3, Len(b)))
      IN [text |-> <<(b[1] - 192) * 64 + (b[2] - 128)>> \o r.text,
          pending |-> r.pending]
    ELSE
      LET r == Utf8Decode(Tail(b))
      IN [text |-> <<ReplacementChar>> \o r.text, pending |-> r.pending]
  ELSE IF IsLead3(b[1]) THEN
    IF Len(b) = 1 THEN [text |-> <<>>, pending |-> b]
    ELSE IF ~IsSecond3(b[1], b[2]) THEN
      LET r == Utf8Decode(Tail(b))
      IN [text |-> <<ReplacementChar>> \o r.text, pending |-> r.pending]
    ELSE IF Len(b) = 2 THEN [text |-> <<>>, pending |-> b]
    ELSE IF IsCont(b[3]) THEN
      LET r == Utf8Decode(SubSeq(b, 4, Len(b)))
      IN [text |-> <<(b[1] - 224) * 4096 + (b[2] - 128) * 64 + (b[3] - 128)>>
                   \o r.text,
          pending |-> r.pending]
    ELSE
      LET r == Utf8Decode(SubSeq(b, 3, Len(b)))
      IN [text |-> <<ReplacementChar>> \o r.text, pending |-> r.pending]
  ELSE
    LET r == Utf8Decode(Tail(b))
    IN [text |-> <<ReplacementChar>> \o r.text, pending |-> r.pending]

TextDecodeStream(pending, value) == Utf8Decode(pending \o value)

\* new TextDecoder().decode(bytes): an incomplete sequence at the end of the
\* input becomes one replacement character.
TextDecode(b) ==
  LET d == Utf8Decode(b)
  IN d.text \o (IF d.pending = <<>> THEN <<>> ELSE <<ReplacementChar>>)

\* ------------------------------------------------------------------- base64
B64Pad == 61

B64Char(s) ==
  IF s < 26 THEN 65 + s
  ELSE IF s < 52 THEN 97 + (s - 26)
  ELSE IF s < 62 THEN 48 + (s - 52)
  ELSE IF s = 62 THEN 43 ELSE 47

B64Val(c) ==
  IF c >= 65 /\ c <= 90 THEN c - 65
  ELSE IF c >= 97 /\ c <= 122 THEN c - 97 + 26
  ELSE IF c >= 48 /\ c <= 57 THEN c - 48 + 52
  ELSE IF c = 43 THEN 62
  ELSE IF c = 47 THEN 63 ELSE -1

\* encodeBase64 (@std/encoding) and btoa(String.fromCharCode(...bytes)).
RECURSIVE encodeBase64(_)
encodeBase64(b) ==
  IF Len(b) = 0 THEN <<>>
  ELSE IF Len(b) = 1 THEN
    <<B64Char(b[1] \div 4), B64Char((b[1] % 4) * 16), B64Pad, B64Pad>>
  ELSE IF Len(b) = 2 THEN
    <<B64Char(b[1] \div 4), B64Char((b[1] % 4) * 16 + (b[2] \div 16)),
      B64Char((b[2] % 16) * 4), B64Pad>>
  ELSE
    <<B64Char(b[1] \div 4), B64Char((b[1] % 4) * 16 + (b[2] \div 16)),
      B64Char((b[2] % 16) * 4 + (b[3] \div 64)), B64Char(b[3] % 64)>>
    \o encodeBase64(SubSeq(b, 4, Len(b)))

\* The inputs decodeBase64 accepts; it throws on any other.
IsBase64(s) ==
  /\ Len(s) % 4 = 0
  /\ \A i \in 1..Len(s) :
       \/ B64Val(s[i]) >= 0
       \/ /\ s[i] = B64Pad
          /\ i >= Len(s) - 1
          /\ s[Len(s)] = B64Pad

RECURSIVE decodeBase64(_)
decodeBase64(s) ==
  IF Len(s) = 0 THEN <<>>
  ELSE
    LET v1 == B64Val(s[1])
        v2 == B64Val(s[2])
        v3 == B64Val(s[3])
        v4 == B64Val(s[4])
        g == IF s[3] = B64Pad THEN <<v1 * 4 + (v2 \div 16)>>
             ELSE IF s[4] = B64Pad THEN
               <<v1 * 4 + (v2 \div 16), (v2 % 16) * 16 + (v3 \div 4)>>
             ELSE
               <<v1 * 4 + (v2 \div 16), (v2 % 16) * 16 + (v3 \div 4),
                 (v3 % 4) * 64 + v4>>
    IN g \o decodeBase64(SubSeq(s, 5, Len(s)))

\* ------------------------------------------------------------ worker: streams
Min(a, b) == IF a < b THEN a ELSE b

isBinaryData(data) ==
  IF Len(data) = 0 THEN FALSE
  ELSE IF \E i \in 1..Min(Len(data), 1024) : data[i] = 0 THEN TRUE
  ELSE LET controlChars ==
             Cardinality({i \in 1..Min(Len(data), 1024) :
                            data[i] < 32 /\ data[i] # 9 /\ data[i] # 10
                            /\ data[i] # 13})
       IN controlChars * 10 > Len(data)

\* One turn of the loop of processStream: the StreamData of one chunk and
\* the decoder's state after it.
processStream(pending, value) ==
  LET d == TextDecodeStream(pending, value)
      isEncoded == isBinaryData(value)
  IN [content |-> IF isEncoded THEN encodeBase64(value) ELSE d.text,
      isEncoded |-> isEncoded,
      pending |-> d.pending]

\* ------------------------------------------------------- store: stream append
\* The value updateStreamOutput computes from the channel it has read.
\* ok is FALSE when decodeBase64 throws (the append is then abandoned).
StreamUpdate(curText, curEncoded, content, isBinary) ==
  LET willBeEncoded == isBinary \/ curEncoded
  IN IF willBeEncoded THEN
       IF curEncoded /\ ~IsBase64(curText)
       THEN [ok |-> FALSE, text |-> curText, encoded |-> curEncoded]
       ELSE LET existingData == IF curEncoded THEN decodeBase64(curText)
                                ELSE TextEncode(curText)
                newData == TextEncode(content)
            IN [ok |-> TRUE, text |-> encodeBase64(existingData \o newData),
                encoded |-> TRUE]
     ELSE [ok |-> TRUE, text |-> curText \o content, encoded |-> FALSE]

\* What a reader of the record obtains as the bytes of a channel.
ChannelBytes(text, encoded) ==
  IF encoded THEN (IF IsBase64(text) THEN decodeBase64(text) ELSE <<-1>>)
  ELSE TextEncode(text)

\* ------------------------------------------------------------------ messages
\* Error messages, abbreviated to two characters.
MsgSpawnFailed == <<78, 70>>         \* the message of Deno's NotFound error
MsgCommandRequired == <<67, 114>>    \* "Command is required"
MsgCommandCancelled == <<67, 99>>    \* "Command cancelled"
MsgCancelledByUser == <<67, 117>>    \* "Command cancelled by user"
MsgWorkerError == <<87, 101>>        \* "Worker error: ..."
MsgPoolTerminated == <<87, 116>>     \* "Worker pool terminated"

Null == -99                          \* exitCode: null
SigtermCode == 143                   \* status.code after SIGTERM
ExitCodes == {0, 1}
Kinds == {"ok", "nospawn", "empty"}  \* spawnable, not spawnable, command ""
Streams == {"stdout", "stderr"}

VARIABLES
  rec,            \* the outputs table: id -> row, or NoRec
  dbWrites,       \* updateOutput calls in flight
  dbAppends,      \* updateStreamOutput calls in flight
  runResult,      \* outcome of runCommand(id)
  cancelRet,      \* outcome of the last cancelCommand(id) of command.ts
  promise,        \* the promise executeCommand returned for id
  workers,        \* this.workers, ids of the WorkerInstances in list order
  busy,           \* WorkerInstance.busy
  currentTask,    \* WorkerInstance.currentTask
  queue,          \* this.queue
  currentWorkers, \* this.currentWorkers
  taskResults,    \* this.taskResults
  finishChain,    \* the wrappers around this.finishTask, innermost first
  listener,       \* id -> the worker that carries the task's onMessage/onError
  inbox,          \* messages posted to a worker and not yet received
  outbox,         \* messages a worker posted and the pool has not yet handled
  wpc,            \* where the worker's executeCommand(id) stands
  wthread,        \* the worker thread that received "execute" for id
  kind,           \* the kind of command submitted as id
  sent,           \* number of "execute" messages posted for id
  emitted,        \* the StreamData the worker posted for id, in order
  cancelledQueued,\* ids cancelled while they were in the queue
  nsub, nchunks, ncancel, nterm, nfault,
                  \* numbers of runCommand calls, chunks, cancelCommand
                  \* calls, terminate() calls and worker error events so far
  maxWorkers,     \* this.maxWorkers
  limit,          \* how many of each the behaviour may have
  strm,           \* one channel fed chunk by chunk (StreamSpec), and the
                  \* runCommand request that chains from it (ChainSpec)
  issued,         \* the ids insertOutput accepted, in order
  errlog,         \* the store errors that were caught and logged
  call,           \* the last call of a function checked on its own
  drizzle         \* db/drizzle.ts: the module's db and the calls in progress

vars == <<rec, dbWrites, dbAppends, runResult, cancelRet, promise, workers,
          busy, currentTask, queue, currentWorkers, taskResults, finishChain,
          listener, inbox, outbox, wpc, wthread, kind, sent, emitted,
          cancelledQueued, nsub, nchunks, ncancel, nterm, nfault, maxWorkers,
          limit, strm, issued, errlog, call, drizzle>>

NoRec == [status |-> "absent", exitCode |-> Null, stdout |-> <<>>,
          stdoutIsEncoded |-> FALSE, stderr |-> <<>>,
          stderrIsEncoded |-> FALSE]

\* The row runCommand inserts.
InitialRec == [status |-> "running", exitCode |-> Null, stdout |-> <<>>,
               stdoutIsEncoded |-> FALSE, stderr |-> <<>>,
               stderrIsEncoded |-> FALSE]

\* An optional string that was not given (undefined): no string holds -1.
Undefined == <<-1>>

\* No runCommand request of the MCP tool has been handled.
NoRequest == [stdin |-> Undefined, stdinForOutput |-> Undefined,
              outcome |-> "none", delivered |-> <<>>]

StrmInit == [raw |-> <<>>, text |-> <<>>, encoded |-> FALSE,
             pending |-> <<>>, n |-> 0, req |-> NoRequest]

Limits(tasks, chunks, cancels, terminates, faults) ==
  [tasks |-> tasks, chunks |-> chunks, cancels |-> cancels,
   terminates |-> terminates, faults |-> faults]

\* db/drizzle.ts when the module is loaded: db is null, no client exists,
\* nobody has called initOrGetDrizzleDb.  Each caller has the stack of its
\* suspended activations and the point its innermost activation is at.
Callers == 1..2
DrizzleStart ==
  [db |-> FALSE, clients |-> 0, sweeps |-> 0, ncalls |-> 0,
   pc |-> [c \in Callers |-> "idle"],
   stack |-> [c \in Callers |-> <<>>]]

\* A call of a function: its name, its arguments and what it returned.
Call(fn, args, result) == [fn |-> fn, args |-> args, result |-> result]
NoCall == Call("none", <<>>, <<>>)

\* The state after the pool's construction, before the first runCommand.
Start ==
  /\ rec = [id \in Ids |-> NoRec]
  /\ dbWrites = {}
  /\ dbAppends = {}
  /\ runResult = [id \in Ids |-> "none"]
  /\ cancelRet = [id \in Ids |-> "none"]
  /\ promise = [id \in Ids |-> "none"]
  /\ workers = <<>>
  /\ busy = [w \in WorkerIds |-> FALSE]
  /\ currentTask = [w \in WorkerIds |-> NoTask]
  /\ queue = <<>>
  /\ currentWorkers = 0
  /\ taskResults = [id \in Ids |-> "none"]
  /\ finishChain = <<>>
  /\ listener = [id \in Ids |-> NoWorker]
  /\ inbox = [w \in WorkerIds |-> <<>>]
  /\ outbox = [w \in WorkerIds |-> <<>>]
  /\ wpc = [id \in Ids |-> "none"]
  /\ wthread = [id \in Ids |-> NoWorker]
  /\ kind = [id \in Ids |-> "ok"]
  /\ sent = [id \in Ids |-> 0]
  /\ emitted = [id \in Ids |-> <<>>]
  /\ cancelledQueued = {}
  /\ nsub = 0 /\ nchunks = 0 /\ ncancel = 0 /\ nterm = 0 /\ nfault = 0
  /\ strm = StrmInit
  /\ issued = <<>>
  /\ errlog = {}
  /\ call = NoCall
  /\ drizzle = DrizzleStart

Init ==
  /\ Start
  /\ maxWorkers \in 1..MaxPool
  /\ limit = Limits(MaxTasks, 0, MaxCancels, MaxTerminates, MaxFaults)

\* ------------------------------------------------------------ pool operators
\* The state the pool's synchronous code reads and writes, as one record.
Pool == [workers |-> workers, busy |-> busy, currentTask |-> currentTask,
         queue |-> queue, currentWorkers |-> currentWorkers,
         taskResults |-> taskResults, finishChain |-> finishChain,
         listener |-> listener, inbox |-> inbox, sent |-> sent,
         promise |-> promise, dbWrites |-> dbWrites, runResult |-> runResult]

SetPool(p) ==
  /\ workers' = p.workers
  /\ busy' = p.busy
  /\ currentTask' = p.currentTask
  /\ queue' = p.queue
  /\ currentWorkers' = p.currentWorkers
  /\ taskResults' = p.taskResults
  /\ finishChain' = p.finishChain
  /\ listener' = p.listener
  /\ inbox' = p.inbox
  /\ sent' = p.sent
  /\ promise' = p.promise
  /\ dbWrites' = p.dbWrites
  /\ runResult' = p.runResult

SeqToSet(s) == {s[i] : i \in 1..Len(s)}
SetMin(S) == CHOOSE x \in S : \A y \in S : x <= y

RemoveAt(s, i) == SubSeq(s, 1, i - 1) \o SubSeq(s, i + 1, Len(s))

\* An updateOutput call: the fields it sets and what its caller does next.
WriteOp(id, status, exitCode, setStderr, stderr, then) ==
  [id |-> id, status |-> status, exitCode |-> exitCode,
   setStderr |-> setStderr, stderr |-> stderr, then |-> then]

\* task.resolve of a task of runCommand: runCommand returns the result.
Resolve(p, id) ==
  IF p.promise[id] = "pending"
  THEN [p EXCEPT !.promise[id] = "resolved", !.runResult[id] = "returned"]
  ELSE p

\* Reject as a catch block that rethrows without recording the failure.
RejectNoRecord(p, id, msg) ==
  IF p.promise[id] = "pending"
  THEN [p EXCEPT !.promise[id] = "rejected", !.runResult[id] = "thrown"]
  ELSE p

\* task.reject of a task of runCommand: the catch block of runCommand marks
\* the record failed and rethrows.
Reject(p, id, msg) ==
  IF p.promise[id] = "pending"
  THEN [p EXCEPT !.promise[id] = "rejected",
                 !.dbWrites = @ \cup
                   {WriteOp(id, "failed", -1, TRUE, msg, "throw")}]
  ELSE p

\* this.workers.find((w) => !w.busy)
FindIdle(p) ==
  LET idx == {i \in 1..Len(p.workers) : ~p.busy[p.workers[i]]}
  IN IF idx = {} THEN NoWorker ELSE p.workers[SetMin(idx)]

createWorker(p) ==
  [p EXCEPT !.workers = Append(@, p.currentWorkers),
            !.busy[p.currentWorkers] = FALSE,
            !.currentTask[p.currentWorkers] = NoTask,
            !.currentWorkers = @ + 1]

\* Adds the task's listeners to the worker and wraps this.finishTask.
setupTaskHandlers(p, w, id) ==
  [p EXCEPT !.listener[id] = w, !.finishChain = Append(@, id)]

\* processQueue sending the head of the queue without taking it out.
processQueueNoShift(p) ==
  IF Len(p.queue) = 0 THEN p
  ELSE
    LET idle == FindIdle(p)
        create == idle = NoWorker /\ p.currentWorkers < maxWorkers
        w == IF idle # NoWorker THEN idle
             ELSE IF create THEN p.currentWorkers ELSE NoWorker
        q == IF create THEN createWorker(p) ELSE p
    IN IF w = NoWorker THEN p
       ELSE LET id == Head(q.queue)
            IN setupTaskHandlers(
                 [q EXCEPT !.busy[w] = TRUE,
                           !.currentTask[w] = id,
                           !.inbox[w] = Append(@, [type |-> "execute",
                                                    id |-> id]),
                           !.sent[id] = @ + 1],
                 w, id)

\* processQueue taking the task that was queued last.
processQueueLifo(p) ==
  IF Len(p.queue) = 0 THEN p
  ELSE
    LET idle == FindIdle(p)
        create == idle = NoWorker /\ p.currentWorkers < maxWorkers
        w == IF idle # NoWorker THEN idle
             ELSE IF create THEN p.currentWorkers ELSE NoWorker
        q == IF create THEN createWorker(p) ELSE p
    IN IF w = NoWorker THEN p
       ELSE LET id == q.queue[Len(q.queue)]
            IN setupTaskHandlers(
                 [q EXCEPT !.queue = SubSeq(@, 1, Len(@) - 1),
                           !.busy[w] = TRUE,
                           !.currentTask[w] = id,
                           !.inbox[w] = Append(@, [type |-> "execute",
                                                    id |-> id]),
                           !.sent[id] = @ + 1],
                 w, id)

\* processQueue creating a worker whenever none is idle, whatever the limit.
processQueueNoLimit(p) ==
  IF Len(p.queue) = 0 THEN p
  ELSE
    LET idle == FindIdle(p)
        create == idle = NoWorker
        w == IF idle # NoWorker THEN idle ELSE p.currentWorkers
        q == IF create THEN createWorker(p) ELSE p
        id == Head(q.queue)
    IN setupTaskHandlers(
         [q EXCEPT !.queue = Tail(@),
                   !.busy[w] = TRUE,
                   !.currentTask[w] = id,
                   !.inbox[w] = Append(@, [type |-> "execute", id |-> id]),
                   !.sent[id] = @ + 1],
         w, id)

processQueue(p) ==
  IF Len(p.queue) = 0 THEN p
  ELSE
    LET idle == FindIdle(p)
        create == idle = NoWorker /\ p.currentWorkers < maxWorkers
        w == IF idle # NoWorker THEN idle
             ELSE IF create THEN p.currentWorkers ELSE NoWorker
        q == IF create THEN createWorker(p) ELSE p
    IN IF w = NoWorker THEN p
       ELSE LET id == Head(q.queue)
            IN setupTaskHandlers(
                 [q EXCEPT !.queue = Tail(@),
                           !.busy[w] = TRUE,
                           !.currentTask[w] = id,
                           !.inbox[w] = Append(@, [type |-> "execute",
                                                    id |-> id]),
                           !.sent[id] = @ + 1],
                 w, id)

\* finishTask marking the worker idle without looking at the queue.
finishTaskNoDequeue(p, w) ==
  LET match == {i \in 1..Len(p.finishChain) :
                  p.listener[p.finishChain[i]] = w}
      cleaned == {p.finishChain[i] : i \in match}
      chain == IF match = {} THEN p.finishChain
               ELSE SubSeq(p.finishChain, 1, SetMin(match) - 1)
  IN [p EXCEPT !.finishChain = chain,
               !.listener = [id \in Ids |->
                               IF id \in cleaned THEN NoWorker ELSE @[id]],
               !.busy[w] = FALSE,
               !.currentTask[w] = NoTask]

\* this.finishTask(w): the wrappers run outermost first; a wrapper set up for
\* w removes its task's listeners and resets this.finishTask to the function
\* it wrapped; the innermost function marks w idle and calls processQueue.
finishTask(p, w) ==
  LET match == {i \in 1..Len(p.finishChain) :
                  p.listener[p.finishChain[i]] = w}
      cleaned == {p.finishChain[i] : i \in match}
      chain == IF match = {} THEN p.finishChain
               ELSE SubSeq(p.finishChain, 1, SetMin(match) - 1)
  IN processQueue(
       [p EXCEPT !.finishChain = chain,
                 !.listener = [id \in Ids |->
                                 IF id \in cleaned THEN NoWorker ELSE @[id]],
                 !.busy[w] = FALSE,
                 !.currentTask[w] = NoTask])

executeCommand(p, id) ==
  processQueue([p EXCEPT !.queue = Append(@, id), !.promise[id] = "pending"])

\* --------------------------------------------------------- command.ts actions
\* insertOutput: a plain INSERT into the table, whose id is its PRIMARY KEY;
\* it throws when a row with this id exists.
insertOutput(store, id) ==
  IF store[id].status # "absent"
  THEN [ok |-> FALSE, rec |-> store]
  ELSE [ok |-> TRUE, rec |-> [store EXCEPT ![id] = InitialRec]]

\* runCommand(command) when createOutputId returns id: the initial row is
\* inserted and the task is handed to the pool; when the insert throws,
\* runCommand rejects before it reaches the pool.  What kind of command it
\* is (spawnable, not spawnable, empty) shows when a worker executes it.
RunCommandWithId(id) ==
  /\ nsub < limit.tasks
  /\ nsub' = nsub + 1
  /\ LET ins == insertOutput(rec, id)
     IN /\ rec' = ins.rec
        /\ IF ins.ok
           THEN /\ issued' = Append(issued, id)
                /\ SetPool(executeCommand(
                             [Pool EXCEPT !.runResult[id] = "pending"], id))
           ELSE /\ issued' = issued
                /\ SetPool(Pool)
  /\ UNCHANGED <<dbAppends, cancelRet, outbox, wpc, wthread, kind, emitted,
                 cancelledQueued, nchunks, ncancel, nterm, nfault,
                 maxWorkers, limit, strm, errlog, call, drizzle>>

\* runCommand(command) when createOutputId returns an id that no earlier
\* call obtained.
RunCommand == RunCommandWithId(nsub + 1)

QueueIndex(p, id) ==
  LET idx == {i \in 1..Len(p.queue) : p.queue[i] = id}
  IN IF idx = {} THEN 0 ELSE SetMin(idx)

\* this.workers.find((w) => w.currentTask === id)
FindByTask(p, id) ==
  LET idx == {i \in 1..Len(p.workers) : p.currentTask[p.workers[i]] = id}
  IN IF idx = {} THEN NoWorker ELSE p.workers[SetMin(idx)]

\* cancelCommand rejecting a queued task without taking it out of the queue.
poolCancelCommandNoSplice(p, id) ==
  LET qi == QueueIndex(p, id)
      w == FindByTask(p, id)
  IN IF qi # 0 THEN
       [pool |-> Reject(p, id, MsgCommandCancelled),
        result |-> TRUE, queued |-> TRUE]
     ELSE IF w # NoWorker THEN
       [pool |-> [p EXCEPT !.inbox[w] = Append(@, [type |-> "cancel",
                                                    id |-> id])],
        result |-> TRUE, queued |-> FALSE]
     ELSE [pool |-> p, result |-> FALSE, queued |-> FALSE]

\* CommandWorkerPool.cancelCommand: the pool after the call and its result.
poolCancelCommand(p, id) ==
  LET qi == QueueIndex(p, id)
      w == FindByTask(p, id)
  IN IF qi # 0 THEN
       [pool |-> Reject([p EXCEPT !.queue = RemoveAt(@, qi)], id,
                        MsgCommandCancelled),
        result |-> TRUE, queued |-> TRUE]
     ELSE IF w # NoWorker THEN
       [pool |-> [p EXCEPT !.inbox[w] = Append(@, [type |-> "cancel",
                                                    id |-> id])],
        result |-> TRUE, queued |-> FALSE]
     ELSE [pool |-> p, result |-> FALSE, queued |-> FALSE]

\* cancelCommand(id) of command.ts, up to its await.
CancelCommand(id) ==
  /\ ncancel < limit.cancels
  /\ id <= nsub
  /\ ncancel' = ncancel + 1
  /\ LET r == poolCancelCommand(Pool, id)
     IN /\ IF r.result
           THEN /\ SetPool([r.pool EXCEPT !.dbWrites = @ \cup
                              {WriteOp(id, "failed", -1, TRUE,
                                       MsgCancelledByUser, "cancelTrue")}])
                /\ cancelRet' = [cancelRet EXCEPT ![id] = "writing"]
           ELSE /\ SetPool(r.pool)
                /\ cancelRet' = [cancelRet EXCEPT ![id] = "false"]
        /\ cancelledQueued' = IF r.queued THEN cancelledQueued \cup {id}
                              ELSE cancelledQueued
  /\ UNCHANGED <<rec, dbAppends, outbox, wpc, wthread, kind, emitted, nsub,
                 nchunks, nterm, nfault, maxWorkers, limit, strm, issued,
                 errlog, call, drizzle>>

\* ------------------------------------------------------------- store actions
\* An updateOutput call completes: only the fields it was given change; the
\* caller that awaited it goes on.
DbWrite(op) ==
  /\ op \in dbWrites
  /\ rec[op.id].status # "absent"
  /\ rec' = [rec EXCEPT ![op.id] =
               [@ EXCEPT !.status = op.status,
                         !.exitCode = op.exitCode,
                         !.stderr = IF op.setStderr THEN op.stderr ELSE @]]
  /\ dbWrites' = dbWrites \ {op}
  /\ runResult' = IF op.then = "throw"
                  THEN [runResult EXCEPT ![op.id] = "thrown"] ELSE runResult
  /\ cancelRet' = IF op.then = "cancelTrue"
                  THEN [cancelRet EXCEPT ![op.id] = "true"] ELSE cancelRet
  /\ UNCHANGED <<dbAppends, promise, workers, busy, currentTask, queue,
                 currentWorkers, taskResults, finishChain, listener, inbox,
                 outbox, wpc, wthread, kind, sent, emitted, cancelledQueued,
                 nsub, nchunks, ncancel, nterm, nfault,
                 maxWorkers, limit, strm, issued, errlog, call, drizzle>>

\* updateStreamOutput, first half: getOutputById and the computation of the
\* new content of the channel.
AppendRead(op) ==
  /\ op \in dbAppends
  /\ op.phase = "read"
  /\ LET r == rec[op.id]
         u == IF op.stream = "stdout"
              THEN StreamUpdate(r.stdout, r.stdoutIsEncoded, op.content,
                                op.isBinary)
              ELSE StreamUpdate(r.stderr, r.stderrIsEncoded, op.content,
                                op.isBinary)
     IN dbAppends' = (dbAppends \ {op}) \cup
          (IF u.ok THEN {[op EXCEPT !.phase = "write", !.text = u.text,
                                    !.encoded = u.encoded]}
           ELSE {})
  /\ UNCHANGED <<rec, dbWrites, runResult, cancelRet, promise, workers, busy,
                 currentTask, queue, currentWorkers, taskResults, finishChain,
                 listener, inbox, outbox, wpc, wthread, kind, sent, emitted,
                 cancelledQueued, nsub, nchunks, ncancel, nterm, nfault,
                 maxWorkers, limit, strm, issued, errlog, call, drizzle>>

\* updateStreamOutput's write as a write of the whole row, the fields it was
\* not given reset to their defaults.
AppendWriteWholeRow(op) ==
  /\ op \in dbAppends
  /\ op.phase = "write"
  /\ rec' = [rec EXCEPT ![op.id] =
               IF op.stream = "stdout"
               THEN [@ EXCEPT !.stdout = op.text,
                              !.stdoutIsEncoded = op.encoded,
                              !.stderr = <<>>,
                              !.stderrIsEncoded = FALSE]
               ELSE [@ EXCEPT !.stderr = op.text,
                              !.stderrIsEncoded = op.encoded,
                              !.stdout = <<>>,
                              !.stdoutIsEncoded = FALSE]]
  /\ dbAppends' = dbAppends \ {op}
  /\ UNCHANGED <<dbWrites, runResult, cancelRet, promise, workers, busy,
                 currentTask, queue, currentWorkers, taskResults, finishChain,
                 listener, inbox, outbox, wpc, wthread, kind, sent, emitted,
                 cancelledQueued, nsub, nchunks, ncancel, nterm, nfault,
                 maxWorkers, limit, strm, issued, errlog, call, drizzle>>

\* updateStreamOutput, second half: updateOutput of the channel and its flag.
AppendWrite(op) ==
  /\ op \in dbAppends
  /\ op.phase = "write"
  /\ rec' = [rec EXCEPT ![op.id] =
               IF op.stream = "stdout"
               THEN [@ EXCEPT !.stdout = op.text,
                              !.stdoutIsEncoded = op.encoded]
               ELSE [@ EXCEPT !.stderr = op.text,
                              !.stderrIsEncoded = op.encoded]]
  /\ dbAppends' = dbAppends \ {op}
  /\ UNCHANGED <<dbWrites, runResult, cancelRet, promise, workers, busy,
                 currentTask, queue, currentWorkers, taskResults, finishChain,
                 listener, inbox, outbox, wpc, wthread, kind, sent, emitted,
                 cancelledQueued, nsub, nchunks, ncancel, nterm, nfault,
                 maxWorkers, limit, strm, issued, errlog, call, drizzle>>

\* ------------------------------------------------------------- worker thread
Msg(type, id, code, stream, content, isEncoded, seq) ==
  [type |-> type, id |-> id, code |-> code, stream |-> stream,
   content |-> content, isEncoded |-> isEncoded, seq |-> seq]

StartedMsg(id) == Msg("started", id, Null, "none", <<>>, FALSE, 0)
ErrorMsg(id, text) == Msg("error", id, Null, "none", text, FALSE, 0)
CompleteMsg(id, code) == Msg("complete", id, code, "none", <<>>, FALSE, 0)

\* executeCommand of the worker posting "started" only once the process has
\* been spawned.
workerExecuteStartedAfterSpawn(id, k) ==
  IF k = "empty" THEN
    [posts |-> <<ErrorMsg(id, MsgCommandRequired)>>, pc |-> "done"]
  ELSE IF k = "nospawn" THEN
    [posts |-> <<ErrorMsg(id, MsgSpawnFailed)>>, pc |-> "done"]
  ELSE [posts |-> <<StartedMsg(id)>>, pc |-> "running"]

\* executeCommand(message) of the worker up to its first await: what it posts
\* and where it stands.
workerExecute(id, k) ==
  IF k = "empty" THEN
    [posts |-> <<ErrorMsg(id, MsgCommandRequired)>>, pc |-> "done"]
  ELSE IF k = "nospawn" THEN
    [posts |-> <<StartedMsg(id), ErrorMsg(id, MsgSpawnFailed)>>, pc |-> "done"]
  ELSE IF k = "stdinfail" THEN
    \* writer.write or writer.close throws: the inner catch logs the error
    \* and executeCommand goes on to the streams and the exit status.
    [posts |-> <<StartedMsg(id)>>, pc |-> "running"]
  ELSE [posts |-> <<StartedMsg(id)>>, pc |-> "running"]

\* cancelCommand(id) of the worker: runningProcesses holds id exactly while
\* executeCommand(id) stands at "running".
workerCancel(id, pc) ==
  IF pc = "running"
  THEN [posts |-> <<ErrorMsg(id, MsgCommandCancelled)>>, pc |-> "killed"]
  ELSE [posts |-> <<>>, pc |-> pc]

\* self.onmessage of the worker; k is the kind of the command of an
\* "execute" message.
WorkerReceive(w, k) ==
  /\ Len(inbox[w]) > 0
  /\ LET m == Head(inbox[w])
         r == IF m.type = "execute" THEN workerExecute(m.id, k)
              ELSE workerCancel(m.id, wpc[m.id])
     IN /\ m.type = "cancel" => k = "ok"
        /\ inbox' = [inbox EXCEPT ![w] = Tail(@)]
        /\ outbox' = [outbox EXCEPT ![w] = @ \o r.posts]
        /\ wpc' = [wpc EXCEPT ![m.id] = r.pc]
        /\ wthread' = IF m.type = "execute"
                      THEN [wthread EXCEPT ![m.id] = w] ELSE wthread
        /\ kind' = IF m.type = "execute"
                   THEN [kind EXCEPT ![m.id] = k] ELSE kind
  /\ UNCHANGED <<rec, dbWrites, dbAppends, runResult, cancelRet, promise,
                 workers, busy, currentTask, queue, currentWorkers,
                 taskResults, finishChain, listener, sent, emitted,
                 cancelledQueued, nsub, nchunks, ncancel, nterm, nfault,
                 maxWorkers, limit, strm, issued, errlog, call, drizzle>>

\* The bytes of the next chunk a process writes: text or binary, and distinct
\* from every other chunk.
ChunkBytes(binary, n) == IF binary THEN <<0, 65 + n>> ELSE <<65 + n>>

\* processStream reads one chunk of the process of id and posts it.
ProcData(id, stream, binary) ==
  /\ wpc[id] \in {"running", "killed"}
  /\ nchunks < limit.chunks
  /\ LET sd == processStream(<<>>, ChunkBytes(binary, nchunks))
     IN /\ outbox' = [outbox EXCEPT ![wthread[id]] =
                        Append(@, Msg("data", id, Null, stream, sd.content,
                                      sd.isEncoded, nchunks + 1))]
        /\ emitted' = [emitted EXCEPT ![id] =
                         Append(@, [stream |-> stream, content |-> sd.content,
                                    isEncoded |-> sd.isEncoded,
                                    raw |-> ChunkBytes(binary, nchunks)])]
  /\ nchunks' = nchunks + 1
  /\ UNCHANGED <<rec, dbWrites, dbAppends, runResult, cancelRet, promise,
                 workers, busy, currentTask, queue, currentWorkers,
                 taskResults, finishChain, listener, inbox, wpc, wthread, kind,
                 sent, cancelledQueued, nsub, ncancel, nterm, nfault,
                 maxWorkers, limit, strm, issued, errlog, call, drizzle>>

\* The process of id has exited and its streams have ended: executeCommand
\* posts "complete" and leaves.
ProcExit(id, code) ==
  /\ \/ wpc[id] = "running" /\ code \in ExitCodes
     \/ wpc[id] = "killed" /\ code = SigtermCode
  /\ outbox' = [outbox EXCEPT ![wthread[id]] = Append(@, CompleteMsg(id, code))]
  /\ wpc' = [wpc EXCEPT ![id] = "done"]
  /\ UNCHANGED <<rec, dbWrites, dbAppends, runResult, cancelRet, promise,
                 workers, busy, currentTask, queue, currentWorkers,
                 taskResults, finishChain, listener, inbox, wthread, kind,
                 sent, emitted, cancelledQueued, nsub, nchunks, ncancel, nterm,
                 nfault, maxWorkers, limit, strm, issued, errlog, call,
                 drizzle>>

\* ------------------------------------------------------- pool: worker events
AppendOp(m) ==
  [id |-> m.id, stream |-> m.stream, content |-> m.content,
   isBinary |-> m.isEncoded, seq |-> m.seq, phase |-> "read", text |-> <<>>,
   encoded |-> FALSE]

\* onMessage leaving the worker busy when its command has completed.
onMessageCompleteKeepsBusy(p, w, m) ==
  IF m.type = "started" THEN Resolve(p, m.id)
  ELSE IF m.type = "complete" THEN
    [p EXCEPT !.taskResults[m.id] = "exit",
              !.dbWrites = @ \cup
                {WriteOp(m.id, "completed", m.code, FALSE, <<>>, "none")}]
  ELSE IF m.type = "error" THEN
    finishTask(Reject([p EXCEPT !.taskResults[m.id] = "error",
                                !.dbWrites = @ \cup
                                  {WriteOp(m.id, "failed", -1, TRUE,
                                           m.content, "none")}],
                      m.id, m.content), w)
  ELSE p

\* onMessage resolving the task's promise when the command has completed
\* instead of when it has started.
onMessageResolveOnComplete(p, w, m) ==
  IF m.type = "started" THEN p
  ELSE IF m.type = "complete" THEN
    finishTask(Resolve([p EXCEPT !.taskResults[m.id] = "exit",
                                 !.dbWrites = @ \cup
                                   {WriteOp(m.id, "completed", m.code, FALSE,
                                            <<>>, "none")}], m.id), w)
  ELSE IF m.type = "error" THEN
    finishTask(Reject([p EXCEPT !.taskResults[m.id] = "error",
                                !.dbWrites = @ \cup
                                  {WriteOp(m.id, "failed", -1, TRUE,
                                           m.content, "none")}],
                      m.id, m.content), w)
  ELSE p

\* onMessage of the task the message is for (the listeners of other tasks
\* ignore it): the pool after the handler.
onMessage(p, w, m) ==
  IF m.type = "started" THEN Resolve(p, m.id)
  ELSE IF m.type = "complete" THEN
    finishTask([p EXCEPT !.taskResults[m.id] = "exit",
                         !.dbWrites = @ \cup
                           {WriteOp(m.id, "completed", m.code, FALSE, <<>>,
                                    "none")}], w)
  ELSE IF m.type = "error" THEN
    finishTask(Reject([p EXCEPT !.taskResults[m.id] = "error",
                                !.dbWrites = @ \cup
                                  {WriteOp(m.id, "failed", -1, TRUE,
                                           m.content, "none")}],
                      m.id, m.content), w)
  ELSE p

\* A message event of worker w: it reaches the listeners still attached to w.
HandleMessage(w) ==
  /\ Len(outbox[w]) > 0
  /\ LET m == Head(outbox[w])
         heard == listener[m.id] = w
     IN /\ outbox' = [outbox EXCEPT ![w] = Tail(@)]
        /\ SetPool(IF heard THEN onMessage(Pool, w, m) ELSE Pool)
        /\ dbAppends' = IF heard /\ m.type = "data"
                        THEN dbAppends \cup {AppendOp(m)} ELSE dbAppends
  /\ UNCHANGED <<rec, cancelRet, wpc, wthread, kind, emitted, cancelledQueued,
                 nsub, nchunks, ncancel, nterm, nfault,
                 maxWorkers, limit, strm, issued, errlog, call, drizzle>>

\* The error listeners attached to w, in the order they were added; a
\* listener removed by an earlier one is not called.
RECURSIVE onErrorAll(_, _, _)
onErrorAll(p, w, ids) ==
  IF ids = {} THEN p
  ELSE LET id == SetMin(ids)
       IN onErrorAll(IF p.listener[id] = w
                     THEN finishTask(Reject(p, id, MsgWorkerError), w) ELSE p,
                     w, ids \ {id})

removeWorker(p, w) ==
  LET idx == {i \in 1..Len(p.workers) : p.workers[i] = w}
  IN IF idx = {} THEN p
     ELSE [p EXCEPT !.workers = RemoveAt(@, SetMin(idx))]

\* The threads of the workers in D stop: nothing they posted or were sent is
\* delivered any more.
Stopped(D, pcs) ==
  [id \in Ids |-> IF wthread[id] \in D /\ pcs[id] \in {"running", "killed"}
                  THEN "dead" ELSE pcs[id]]

\* An error event of worker w: worker.onerror removes the worker, then the
\* onError listeners of its tasks run; the worker's thread has ended.
WorkerFault(w) ==
  /\ nfault < limit.faults
  /\ w \in SeqToSet(workers)
  /\ nfault' = nfault + 1
  /\ LET p == onErrorAll(removeWorker(Pool, w), w, Ids)
     IN SetPool([p EXCEPT !.listener = [id \in Ids |->
                                          IF @[id] = w THEN DeadWorker
                                          ELSE @[id]],
                          !.busy[w] = FALSE,
                          !.currentTask[w] = NoTask,
                          !.inbox[w] = <<>>])
  /\ outbox' = [outbox EXCEPT ![w] = <<>>]
  /\ wpc' = Stopped({w}, wpc)
  /\ UNCHANGED <<rec, dbAppends, cancelRet, wthread, kind, emitted,
                 cancelledQueued, nsub, nchunks, ncancel, nterm,
                 maxWorkers, limit, strm, issued, errlog, call, drizzle>>

RECURSIVE RejectAll(_, _, _)
RejectAll(p, q, msg) ==
  IF Len(q) = 0 THEN p ELSE RejectAll(Reject(p, Head(q), msg), Tail(q), msg)

\* terminate stopping the workers but keeping them in this.workers.
terminateKeepWorkers(p) ==
  [RejectAll(p, p.queue, MsgPoolTerminated) EXCEPT
     !.queue = <<>>,
     !.currentWorkers = 0,
     !.taskResults = [id \in Ids |-> "none"],
     !.inbox = [w \in WorkerIds |-> <<>>],
     !.listener = [id \in Ids |-> IF @[id] \in WorkerIds THEN DeadWorker
                                  ELSE @[id]]]

\* terminate rejecting the queued tasks without emptying the queue.
terminateKeepQueue(p) ==
  [RejectAll(p, p.queue, MsgPoolTerminated) EXCEPT
     !.workers = <<>>,
     !.currentWorkers = 0,
     !.taskResults = [id \in Ids |-> "none"],
     !.busy = [w \in WorkerIds |-> FALSE],
     !.currentTask = [w \in WorkerIds |-> NoTask],
     !.inbox = [w \in WorkerIds |-> <<>>],
     !.listener = [id \in Ids |-> IF @[id] \in WorkerIds THEN DeadWorker
                                  ELSE @[id]]]

\* CommandWorkerPool.terminate(); the promises it awaits are already resolved.
terminate(p) ==
  [RejectAll(p, p.queue, MsgPoolTerminated) EXCEPT
     !.workers = <<>>,
     !.queue = <<>>,
     !.currentWorkers = 0,
     !.taskResults = [id \in Ids |-> "none"],
     !.busy = [w \in WorkerIds |-> FALSE],
     !.currentTask = [w \in WorkerIds |-> NoTask],
     !.inbox = [w \in WorkerIds |-> <<>>],
     !.listener = [id \in Ids |-> IF @[id] \in WorkerIds THEN DeadWorker
                                  ELSE @[id]]]

Terminate ==
  /\ nterm < limit.terminates
  /\ nterm' = nterm + 1
  /\ SetPool(terminate(Pool))
  /\ outbox' = [w \in WorkerIds |-> <<>>]
  /\ wpc' = Stopped(WorkerIds, wpc)
  /\ UNCHANGED <<rec, dbAppends, cancelRet, wthread, kind, emitted,
                 cancelledQueued, nsub, nchunks, ncancel, nfault,
                 maxWorkers, limit, strm, issued, errlog, call, drizzle>>

\* --------------------------------------------------------------- behaviours
\* Submissions, the workers, the pool's handlers and the final writes.
NextWork ==
  \/ \E w \in WorkerIds, k \in Kinds : WorkerReceive(w, k)
  \/ \E id \in Ids, c \in ExitCodes \cup {SigtermCode} : ProcExit(id, c)
  \/ \E w \in WorkerIds : HandleMessage(w)
  \/ \E op \in dbWrites : DbWrite(op)

NextPool == RunCommand \/ NextWork

\* The output of the processes on its way to the store.
NextData ==
  \/ \E id \in Ids, s \in Streams, b \in BOOLEAN : ProcData(id, s, b)
  \/ \E op \in dbAppends : AppendRead(op)
  \/ \E op \in dbAppends : AppendWrite(op)

\* Cancellation, worker errors and shutdown.
NextEnv ==
  \/ \E id \in Ids : CancelCommand(id)
  \/ \E w \in WorkerIds : WorkerFault(w)
  \/ Terminate

\* The pool and the lifecycle of the records, for commands without output.
Next == NextPool \/ NextEnv

Spec == Init /\ [][Next]_vars

TypeOK ==
  /\ \A id \in Ids : rec[id].status \in {"absent", "running", "completed",
                                         "failed"}
  /\ currentWorkers \in 0..maxWorkers
  /\ maxWorkers \in 1..MaxPool
  /\ SeqToSet(workers) \subseteq WorkerIds
  /\ SeqToSet(queue) \subseteq Ids

\* The engine at work, undisturbed.
NextRun == NextPool \/ NextData

\* One command whose process writes up to DataChunks chunks.
DataInit ==
  /\ Start
  /\ maxWorkers = 1
  /\ limit = Limits(1, DataChunks, 0, 0, 0)

DataSpec == DataInit /\ [][NextRun]_vars

\* Every message that was posted is handled, every store operation
\* completes and every process exits.
LiveInit ==
  /\ Start
  /\ maxWorkers \in 1..MaxPool
  /\ limit = Limits(MaxTasks, MaxChunks, 0, 0, 0)

LiveSpec == LiveInit /\ [][NextRun]_vars /\ WF_vars(NextRun)

\* The pool at work and shut down, possibly more than once.
ShutdownInit ==
  /\ Start
  /\ maxWorkers \in 1..MaxPool
  /\ limit = Limits(MaxTasks, 0, 0, MaxShutdowns, 0)

ShutdownNext == NextPool \/ Terminate

ShutdownSpec == ShutdownInit /\ [][ShutdownNext]_vars

\* The same, where the messages that were posted are handled, the store
\* operations complete and the processes exit.
ShutdownLiveSpec ==
  ShutdownInit /\ [][ShutdownNext]_vars /\ WF_vars(NextWork)

\* The pool at work while workers raise error events; the messages that
\* were posted are handled, the store operations complete and the processes
\* exit.
FaultInit ==
  /\ Start
  /\ maxWorkers \in 1..MaxPool
  /\ limit = Limits(MaxTasks, 0, 0, 0, MaxFaults)

FaultNext == NextPool \/ \E w \in WorkerIds : WorkerFault(w)

FaultSpec == FaultInit /\ [][FaultNext]_vars /\ WF_vars(NextWork)

\* One command whose process writes up to DataChunks chunks and which may
\* be cancelled.
CancelInit ==
  /\ Start
  /\ maxWorkers = 1
  /\ limit = Limits(1, DataChunks, MaxCancels, 0, 0)

CancelNext == NextRun \/ \E id \in Ids : CancelCommand(id)

CancelSpec == CancelInit /\ [][CancelNext]_vars

\* A pool of one worker and as many as MaxIds commands, some of which may
\* be cancelled: tasks wait in the queue behind one another.
QueueInit ==
  /\ Start
  /\ maxWorkers = 1
  /\ limit = Limits(MaxIds, 0, MaxCancels, 0, 0)

QueueNext == NextPool \/ \E id \in Ids : CancelCommand(id)

QueueSpec == QueueInit /\ [][QueueNext]_vars

\* Commands that are given stdin, among them commands whose process does
\* not take it (the write to its stdin fails).
StdinKinds == Kinds \cup {"stdinfail"}

StdinInit ==
  /\ Start
  /\ maxWorkers \in 1..MaxPool
  /\ limit = Limits(MaxTasks, 0, 0, 0, 0)

StdinNext ==
  \/ RunCommand
  \/ \E w \in WorkerIds, k \in StdinKinds : WorkerReceive(w, k)
  \/ \E id \in Ids, c \in ExitCodes : ProcExit(id, c)
  \/ \E w \in WorkerIds : HandleMessage(w)
  \/ \E op \in dbWrites : DbWrite(op)

StdinSpec == StdinInit /\ [][StdinNext]_vars

\* ---------------------------------------------------------- the store failing
\* What console.error receives when a catch block swallows a store error: the
\* execution and the function whose catch block ran.
Logged(id, where) == [id |-> id, where |-> where]

\* updateStreamOutput without its try/catch: the error reaches the catch of
\* handleStreamData.
updateStreamOutputRethrows(id) ==
  Logged(id, "handleStreamData")

\* updateStreamOutput wraps its whole body in try/catch: a missing record, a
\* failed read and a failed write all end in its own console.error, and the
\* call returns.
updateStreamOutputCatch(id) ==
  Logged(id, "updateStreamOutput")

\* updateOutput throws (the statement fails, or rowsAffected is not 1).  The
\* record keeps its fields.  The pool's two callers, updateTaskCompletion and
\* updateTaskError, log and return, and the write is not issued again; inside
\* runCommand's catch block and inside cancelCommand the await is unguarded,
\* so the caller's promise rejects with the store's error.
DbWriteFail(op) ==
  /\ op \in dbWrites
  /\ dbWrites' = dbWrites \ {op}
  /\ errlog' = IF op.then = "none"
               THEN errlog \cup {Logged(op.id, "updateTask")} ELSE errlog
  /\ runResult' = IF op.then = "throw"
                  THEN [runResult EXCEPT ![op.id] = "thrown"] ELSE runResult
  /\ cancelRet' = IF op.then = "cancelTrue"
                  THEN [cancelRet EXCEPT ![op.id] = "thrown"] ELSE cancelRet
  /\ UNCHANGED <<rec, dbAppends, promise, workers, busy, currentTask, queue,
                 currentWorkers, taskResults, finishChain, listener, inbox,
                 outbox, wpc, wthread, kind, sent, emitted, cancelledQueued,
                 nsub, nchunks, ncancel, nterm, nfault,
                 maxWorkers, limit, strm, issued, call, drizzle>>

\* updateStreamOutput fails, in getOutputById or in updateOutput: the chunk is
\* dropped and the error is logged where it was caught.
AppendFail(op) ==
  /\ op \in dbAppends
  /\ dbAppends' = dbAppends \ {op}
  /\ errlog' = errlog \cup {updateStreamOutputCatch(op.id)}
  /\ UNCHANGED <<rec, dbWrites, runResult, cancelRet, promise, workers, busy,
                 currentTask, queue, currentWorkers, taskResults, finishChain,
                 listener, inbox, outbox, wpc, wthread, kind, sent, emitted,
                 cancelledQueued, nsub, nchunks, ncancel, nterm, nfault,
                 maxWorkers, limit, strm, issued, call, drizzle>>

\* One command with up to DataChunks chunks, over a store whose every call
\* may fail.
StoreFaultInit ==
  /\ Start
  /\ maxWorkers = 1
  /\ limit = Limits(1, DataChunks, 0, 0, 0)

StoreFaultNext ==
  \/ NextRun
  \/ \E op \in dbWrites : DbWriteFail(op)
  \/ \E op \in dbAppends : AppendFail(op)

StoreFaultSpec == StoreFaultInit /\ [][StoreFaultNext]_vars

\* ------------------------------------------------------- the store over time
\* The engine's process ends and a new one starts on the same database
\* file: the pool, its workers and every call in flight are gone, and the
\* first use of the database runs cleanupExpiredOutputsOnInit, which
\* deletes the rows created more than a day ago (expired).
Restart(expired) ==
  /\ expired \subseteq {id \in Ids : rec[id].status # "absent"}
  /\ rec' = [id \in Ids |-> IF id \in expired THEN NoRec ELSE rec[id]]
  /\ dbWrites' = {}
  /\ dbAppends' = {}
  /\ runResult' = [id \in Ids |-> "none"]
  /\ cancelRet' = [id \in Ids |-> "none"]
  /\ promise' = [id \in Ids |-> "none"]
  /\ workers' = <<>>
  /\ busy' = [w \in WorkerIds |-> FALSE]
  /\ currentTask' = [w \in WorkerIds |-> NoTask]
  /\ queue' = <<>>
  /\ currentWorkers' = 0
  /\ taskResults' = [id \in Ids |-> "none"]
  /\ finishChain' = <<>>
  /\ listener' = [id \in Ids |-> NoWorker]
  /\ inbox' = [w \in WorkerIds |-> <<>>]
  /\ outbox' = [w \in WorkerIds |-> <<>>]
  /\ wpc' = [id \in Ids |-> "none"]
  /\ wthread' = [id \in Ids |-> NoWorker]
  /\ kind' = [id \in Ids |-> "ok"]
  /\ sent' = [id \in Ids |-> 0]
  /\ emitted' = [id \in Ids |-> <<>>]
  /\ cancelledQueued' = {}
  /\ UNCHANGED <<nsub, nchunks, ncancel, nterm, nfault, maxWorkers, limit,
                 strm, issued, errlog, call, drizzle>>

\* Commands submitted under ids that createOutputId draws at random, over
\* several runs of the engine on one database.
StoreInit ==
  /\ Start
  /\ maxWorkers = 1
  /\ limit = Limits(MaxTasks, 0, 0, 0, 0)

StoreNext ==
  \/ \E id \in Ids : RunCommandWithId(id)
  \/ NextWork
  \/ \E expired \in SUBSET Ids : Restart(expired)

StoreSpec == StoreInit /\ [][StoreNext]_vars

\* ------------------------------------------------- one channel, chunk by chunk
\* The chunks a process may write: text, binary, a two-byte character in
\* one chunk or split over two, and a byte that is no UTF-8.
StreamChunks == {<<65>>, <<0>>, <<66, 0>>, <<195, 169>>, <<195>>, <<169>>,
                 <<255>>}

\* The worker reads the next chunk of the stream and posts it; the pool
\* hands it to updateStreamOutput, which runs to its end.
StreamChunk(value) ==
  /\ strm.n < MaxStreamLen
  /\ strm.req = NoRequest
  /\ LET sd == processStream(strm.pending, value)
         u == StreamUpdate(strm.text, strm.encoded, sd.content, sd.isEncoded)
     IN strm' = [strm EXCEPT !.raw = @ \o value, !.text = u.text,
                             !.encoded = u.encoded, !.pending = sd.pending,
                             !.n = @ + 1]
  /\ UNCHANGED <<rec, dbWrites, dbAppends, runResult, cancelRet, promise,
                 workers, busy, currentTask, queue, currentWorkers,
                 taskResults, finishChain, listener, inbox, outbox, wpc,
                 wthread, kind, sent, emitted, cancelledQueued, nsub, nchunks,
                 ncancel, nterm, nfault, maxWorkers, limit, issued, errlog,
                 call, drizzle>>

\* The state in which a function is checked on its own: the pool is not used.
FunctionInit ==
  /\ Start
  /\ maxWorkers = 1
  /\ limit = Limits(0, 0, 0, 0, 0)

StreamInit ==
  /\ Start
  /\ maxWorkers = 1
  /\ limit = Limits(0, 0, 0, 0, 0)

StreamNext == \E value \in StreamChunks : StreamChunk(value)

StreamSpec == StreamInit /\ [][StreamNext]_vars

\* ------------------------------------------------ the runCommand tool: stdin
\* OutputIdSchema: a string of nine digits.
IdLength == 9
isOutputId(s) == Len(s) = IdLength /\ \A i \in 1..Len(s) : s[i] >= 48 /\ s[i] <= 57

\* The id of the execution whose stdout is the channel strm, the id of no
\* record, and two strings that are no ids.
IdOfA == <<48, 48, 48, 48, 48, 48, 48, 48, 49>>
IdUnknown == <<57, 57, 57, 57, 57, 57, 57, 57, 57>>
RefValues == {Undefined, IdOfA, IdUnknown, <<49, 50, 51>>,
              <<48, 48, 48, 48, 48, 48, 48, 48, 120>>}

\* The values of the stdin parameter: absent, "" and "x".
StdinValues == {Undefined, <<>>, <<120>>}

\* JavaScript truthiness of an optional string.
Truthy(x) == x # Undefined /\ x # <<>>

\* resolveStdinContent handing on the stored stdout whatever its flag.
resolveStdinContentNoDecode(stdin, stdinForOutput) ==
  IF Truthy(stdin) /\ Truthy(stdinForOutput)
  THEN [error |-> "conflict", content |-> Undefined]
  ELSE IF Truthy(stdin) /\ ~Truthy(stdinForOutput)
  THEN [error |-> "none", content |-> stdin]
  ELSE IF ~Truthy(stdinForOutput)
  THEN [error |-> "none", content |-> Undefined]
  ELSE IF ~isOutputId(stdinForOutput)
  THEN [error |-> "invalid", content |-> Undefined]
  ELSE IF stdinForOutput # IdOfA
  THEN [error |-> "notfound", content |-> Undefined]
  ELSE [error |-> "none", content |-> strm.text]

\* resolveStdinContent(stdin, stdinForOutput): the error it throws or the
\* content it returns.
resolveStdinContent(stdin, stdinForOutput) ==
  IF Truthy(stdin) /\ Truthy(stdinForOutput)
  THEN [error |-> "conflict", content |-> Undefined]
  ELSE IF Truthy(stdin) /\ ~Truthy(stdinForOutput)
  THEN [error |-> "none", content |-> stdin]
  ELSE IF ~Truthy(stdinForOutput)
  THEN [error |-> "none", content |-> Undefined]
  ELSE IF ~isOutputId(stdinForOutput)
  THEN [error |-> "invalid", content |-> Undefined]
  ELSE IF stdinForOutput # IdOfA
  THEN [error |-> "notfound", content |-> Undefined]
  ELSE IF strm.encoded
  THEN [error |-> "none", content |-> TextDecode(decodeBase64(strm.text))]
  ELSE [error |-> "none", content |-> strm.text]

\* The bytes the worker's executeCommand writes to the stdin of the process.
workerStdin(stdin) == IF Truthy(stdin) THEN TextEncode(stdin) ELSE <<>>

\* The handler of the runCommand tool: resolveStdinContent, then runCommand
\* with the content as options.stdin.
ToolRunCommand(stdin, stdinForOutput) ==
  /\ strm.req = NoRequest
  /\ strm.pending = <<>>
  /\ LET r == resolveStdinContent(stdin, stdinForOutput)
         id == nsub + 1
     IN IF r.error # "none"
        THEN /\ strm' = [strm EXCEPT !.req =
                          [stdin |-> stdin, stdinForOutput |-> stdinForOutput,
                           outcome |-> r.error, delivered |-> <<>>]]
             /\ UNCHANGED <<rec, nsub, dbWrites, runResult, promise, workers,
                            busy, currentTask, queue, currentWorkers,
                            taskResults, finishChain, listener, inbox, sent,
                            issued>>
        ELSE /\ strm' = [strm EXCEPT !.req =
                          [stdin |-> stdin, stdinForOutput |-> stdinForOutput,
                           outcome |-> "accepted",
                           delivered |-> workerStdin(r.content)]]
             /\ rec' = [rec EXCEPT ![id] = InitialRec]
             /\ nsub' = id
             /\ issued' = Append(issued, id)
             /\ SetPool(executeCommand(
                          [Pool EXCEPT !.runResult[id] = "pending"], id))
  /\ UNCHANGED <<dbAppends, cancelRet, outbox, wpc, wthread, kind, emitted,
                 cancelledQueued, nchunks, ncancel, nterm, nfault,
                 maxWorkers, limit, errlog, call, drizzle>>

\* Execution A writes its stdout; one runCommand request follows.
ChainInit ==
  /\ Start
  /\ maxWorkers = 1
  /\ limit = Limits(1, 0, 0, 0, 0)

ChainNext ==
  \/ \E value \in StreamChunks : StreamChunk(value)
  \/ \E stdin \in StdinValues, ref \in RefValues : ToolRunCommand(stdin, ref)

ChainSpec == ChainInit /\ [][ChainNext]_vars

\* ----------------------------------------------- the worker's binary detection
\* A Uint8Array of len bytes: controls bytes 0x01, then letters, a NUL at nulAt.
Chunk(len, controls, nulAt) ==
  [i \in 1..len |-> IF i = nulAt THEN 0 ELSE IF i <= controls THEN 1 ELSE 65]

\* processStream classifies the chunk it has read.
CallIsBinaryData(len, controls, nulAt) ==
  /\ call = NoCall
  /\ controls <= len
  /\ nulAt <= len
  /\ call' = Call("isBinaryData", Chunk(len, controls, nulAt),
                  <<isBinaryData(Chunk(len, controls, nulAt))>>)
  /\ UNCHANGED <<rec, dbWrites, dbAppends, runResult, cancelRet, promise,
                 workers, busy, currentTask, queue, currentWorkers,
                 taskResults, finishChain, listener, inbox, outbox, wpc,
                 wthread, kind, sent, emitted, cancelledQueued, nsub, nchunks,
                 ncancel, nterm, nfault, maxWorkers, limit, strm, issued,
                 errlog, drizzle>>

\* The chunks isBinaryData is given: their length, the number of control
\* bytes at their beginning and the place of a NUL byte (0: none), around the
\* 1024 bytes the function looks at and around one byte in ten.
BinaryNext ==
  \E len \in {1, 9, 10, 11, 20, 1023, 1024, 1025, 2048},
     controls \in {0, 1, 2, 3, 102, 103, 104, 150, 204, 205},
     nulAt \in {0, 1, 2, 1024, 1025, 2048} :
    CallIsBinaryData(len, controls, nulAt)

BinarySpec == FunctionInit /\ [][BinaryNext]_vars

\* ------------------------------------------------------- the store's clock
\* A Date, within one month and on the hour: day of the month, hour and
\* milliseconds.  The engine's time zone is UTC.
Dates == [day : 1..4, hour : {0, 12, 23}, ms : {0, 500}]

\* Date.prototype.getTime, counted from the beginning of the month.
getTime(t) == (t.day * 24 + t.hour) * 3600000 + t.ms

Pad2(n) == <<48 + (n \div 10), 48 + (n % 10)>>
Pad3(n) == <<48 + (n \div 100)>> \o Pad2(n % 100)

\* Date.prototype.toISOString: "2025-01-DDTHH:00:00.mmmZ".
toISOString(t) ==
  <<50, 48, 50, 53, 45, 48, 49, 45>> \o Pad2(t.day) \o <<84>> \o Pad2(t.hour)
    \o <<58, 48, 48, 58, 48, 48, 46>> \o Pad3(t.ms) \o <<90>>

\* String.prototype.replace with a string pattern: the first occurrence.
RECURSIVE replace(_, _, _)
replace(str, from, to) ==
  IF Len(str) = 0 THEN <<>>
  ELSE IF Head(str) = from THEN <<to>> \o Tail(str)
  ELSE <<Head(str)>> \o replace(Tail(str), from, to)

\* SQLite's < on two TEXT values (BINARY collation): byte by byte, a proper
\* prefix first.
RECURSIVE lt(_, _)
lt(a, b) ==
  IF Len(b) = 0 THEN FALSE
  ELSE IF Len(a) = 0 THEN TRUE
  ELSE IF Head(a) # Head(b) THEN Head(a) < Head(b)
  ELSE lt(Tail(a), Tail(b))

\* deleteExpiredOutputs over the createdAt column of the table: the rows it
\* deletes and the rowsAffected it returns.
deleteExpiredOutputs(createdAt, now, expirationDays) ==
  LET \* setDate: the same time of day, expirationDays days earlier
      expirationDate == [now EXCEPT !.day = @ - expirationDays]
      isoExpirationDate ==
        replace(SubSeq(toISOString(expirationDate), 1, 19), 84, 32)
      deleted == {i \in 1..Len(createdAt) :
                    lt(createdAt[i], isoExpirationDate)}
  IN [deleted |-> deleted, rowsAffected |-> Cardinality(deleted)]

\* Two records inserted at t1 and t2 (insertOutput stores the toISOString of
\* the time of the insert); deleteExpiredOutputs runs at now.
CallDeleteExpiredOutputs(now, expirationDays, t1, t2) ==
  /\ call = NoCall
  /\ now.day - expirationDays >= 1
  /\ getTime(t1) <= getTime(t2)
  /\ getTime(t2) <= getTime(now)
  /\ LET r == deleteExpiredOutputs(<<toISOString(t1), toISOString(t2)>>, now,
                                   expirationDays)
     IN call' = Call("deleteExpiredOutputs",
                     <<now, expirationDays, <<t1, t2>>>>,
                     <<r.deleted, r.rowsAffected>>)
  /\ UNCHANGED <<rec, dbWrites, dbAppends, runResult, cancelRet, promise,
                 workers, busy, currentTask, queue, currentWorkers,
                 taskResults, finishChain, listener, inbox, outbox, wpc,
                 wthread, kind, sent, emitted, cancelledQueued, nsub, nchunks,
                 ncancel, nterm, nfault, maxWorkers, limit, strm, issued,
                 errlog, drizzle>>

SweepNext ==
  \E now \in Dates, expirationDays \in {1, 2}, t1 \in Dates,
     t2 \in Dates :
    CallDeleteExpiredOutputs(now, expirationDays, t1, t2)

SweepSpec == FunctionInit /\ [][SweepNext]_vars

\* ------------------------------------------------------- db/drizzle.ts: init
\* The database clients the process can hold open at once; createClient
\* throws when they are used up.
MaxClients == 4
MaxInitCalls == 3

DrizzleFrame ==
  UNCHANGED <<rec, dbWrites, dbAppends, runResult, cancelRet, promise,
              workers, busy, currentTask, queue, currentWorkers, taskResults,
              finishChain, listener, inbox, outbox, wpc, wthread, kind, sent,
              emitted, cancelledQueued, nsub, nchunks, ncancel, nterm, nfault,
              maxWorkers, limit, strm, issued, errlog, call>>

\* A function of ouputs.ts (or mcp/schemas.ts) calls initOrGetDrizzleDb().
DrizzleCall(c) ==
  /\ drizzle.pc[c] \in {"idle", "done"}
  /\ drizzle.ncalls < MaxInitCalls
  /\ drizzle' = [drizzle EXCEPT !.pc[c] = "enter", !.ncalls = @ + 1]
  /\ DrizzleFrame

\* initOrGetDrizzleDb from its first line.  With db set it returns db.  With
\* db null it creates a client and awaits initDatabase: CREATE TABLE, then
\* cleanupExpiredOutputsOnInit, which awaits deleteExpiredOutputs, whose first
\* statement awaits initOrGetDrizzleDb(); db is assigned only after
\* initDatabase has returned, so that inner call starts with db as it is now.
initOrGetDrizzleDb(d, c) ==
  IF d.db THEN [d EXCEPT !.pc[c] = "return"]
  ELSE IF d.clients >= MaxClients THEN [d EXCEPT !.pc[c] = "throw"]
  ELSE [d EXCEPT !.clients = @ + 1,
                 !.stack[c] = <<"deleteExpiredOutputs", "initDatabase">> \o @,
                 !.pc[c] = "enter"]

DrizzleEnter(c) ==
  /\ drizzle.pc[c] = "enter"
  /\ drizzle' = initOrGetDrizzleDb(drizzle, c)
  /\ DrizzleFrame

\* An initOrGetDrizzleDb returns db.  To the caller that started the chain:
\* the call is done.  To a suspended deleteExpiredOutputs: it runs its DELETE
\* and returns, cleanupExpiredOutputsOnInit and initDatabase return, and the
\* initOrGetDrizzleDb that awaited them assigns db and returns it.
DrizzleReturn(c) ==
  /\ drizzle.pc[c] = "return"
  /\ drizzle' =
       IF drizzle.stack[c] = <<>> THEN [drizzle EXCEPT !.pc[c] = "done"]
       ELSE [drizzle EXCEPT !.sweeps = @ + 1,
                            !.db = TRUE,
                            !.stack[c] = SubSeq(@, 3, Len(@))]
  /\ DrizzleFrame

\* createClient throws.  initOrGetDrizzleDb has no catch.  A suspended
\* deleteExpiredOutputs rethrows from its catch, cleanupExpiredOutputsOnInit
\* catches that and warns, initDatabase returns and the initOrGetDrizzleDb
\* that awaited it assigns db and returns it.  With no activation suspended
\* the caller that started the chain gets the error.
DrizzleThrow(c) ==
  /\ drizzle.pc[c] = "throw"
  /\ drizzle' =
       IF drizzle.stack[c] = <<>> THEN [drizzle EXCEPT !.pc[c] = "failed"]
       ELSE [drizzle EXCEPT !.db = TRUE,
                            !.stack[c] = SubSeq(@, 3, Len(@)),
                            !.pc[c] = "return"]
  /\ DrizzleFrame

DrizzleNext ==
  \E c \in Callers :
    \/ DrizzleCall(c)
    \/ DrizzleEnter(c)
    \/ DrizzleReturn(c)
    \/ DrizzleThrow(c)

DrizzleSpec == FunctionInit /\ [][DrizzleNext]_vars

\* ------------------------------------------------------------ hooks: the rules
\* What rule.condition(context) returns: null, or a RuleResult, an action
\* with a reason.
MaxRules == 3
RuleActions == {"block", "warning", "confirm", "approve", "skip"}
RuleResult(action, reason) == [action |-> action, reason |-> reason]
NullResult == RuleResult("null", "undefined")
SkipResult == RuleResult("skip", "undefined")
ConditionResults ==
  {NullResult}
    \cup {RuleResult(a, r) : a \in RuleActions, r \in {"first", "second"}}

\* Array.prototype.find on the results: the first one with the action, or
\* undefined (NullResult).
RECURSIVE find(_, _)
find(results, action) ==
  IF Len(results) = 0 THEN NullResult
  ELSE IF Head(results).action = action THEN Head(results)
  ELSE find(Tail(results), action)

IsCollected(result) == result # NullResult /\ result.action # "skip"

\* evaluateRules without the warning action (the version of the engine that
\* preceded it).
evaluateRulesNoWarning(rules) ==
  LET results == SelectSeq(rules, IsCollected)
  IN IF find(results, "block") # NullResult THEN find(results, "block")
     ELSE IF find(results, "confirm") # NullResult
       THEN find(results, "confirm")
     ELSE IF find(results, "approve") # NullResult
       THEN find(results, "approve")
     ELSE SkipResult

\* evaluateRules, rules given by what their conditions return for the context.
evaluateRules(rules) ==
  LET results == SelectSeq(rules, IsCollected)
  IN IF find(results, "block") # NullResult THEN find(results, "block")
     ELSE IF find(results, "warning") # NullResult
       THEN find(results, "warning")
     ELSE IF find(results, "confirm") # NullResult
       THEN find(results, "confirm")
     ELSE IF find(results, "approve") # NullResult
       THEN find(results, "approve")
     ELSE SkipResult

CallEvaluateRules(rules) ==
  /\ call = NoCall
  /\ call' = Call("evaluateRules", rules, <<evaluateRules(rules)>>)
  /\ UNCHANGED <<rec, dbWrites, dbAppends, runResult, cancelRet, promise,
                 workers, busy, currentTask, queue, currentWorkers,
                 taskResults, finishChain, listener, inbox, outbox, wpc,
                 wthread, kind, sent, emitted, cancelledQueued, nsub, nchunks,
                 ncancel, nterm, nfault, maxWorkers, limit, strm, issued,
                 errlog, drizzle>>

RulesNext ==
  \E n \in 0..MaxRules : \E rules \in [1..n -> ConditionResults] :
    CallEvaluateRules(rules)

RulesSpec == FunctionInit /\ [][RulesNext]_vars

\* ------------------------------------------------------------------- helpers
Terminal == {"completed", "failed"}
Queued(id) == QueueIndex(Pool, id) # 0

\* CommandWorkerPool.getStatus()
getStatus ==
  [totalWorkers |-> Len(workers),
   busyWorkers |-> Cardinality({i \in 1..Len(workers) : busy[workers[i]]}),
   queuedTasks |-> Len(queue),
   maxWorkers |-> maxWorkers]

\* The StreamData posted for one channel of id, as the bytes to append.
RECURSIVE PostedBytes(_, _)
PostedBytes(log, stream) ==
  IF Len(log) = 0 THEN <<>>
  ELSE (IF Head(log).stream = stream THEN TextEncode(Head(log).content)
        ELSE <<>>) \o PostedBytes(Tail(log), stream)

\* No "data" message of the channel is still to be handled or appended.
ChannelSettled(id, stream) ==
  /\ wpc[id] = "done"
  /\ \A w \in WorkerIds : \A i \in 1..Len(outbox[w]) :
       ~(outbox[w][i].id = id /\ outbox[w][i].type = "data"
         /\ outbox[w][i].stream = stream)
  /\ \A op \in dbAppends : ~(op.id = id /\ op.stream = stream)

Stored(id, stream) ==
  IF stream = "stdout"
  THEN ChannelBytes(rec[id].stdout, rec[id].stdoutIsEncoded)
  ELSE ChannelBytes(rec[id].stderr, rec[id].stderrIsEncoded)

\* The number of "execute" messages posted so far: the tasks processQueue has
\* shifted off the queue and assigned to a worker.
RECURSIVE SumSent(_)
SumSent(S) ==
  IF S = {} THEN 0
  ELSE LET id == SetMin(S) IN sent[id] + SumSent(S \ {id})

Assigned == SumSent(Ids)

\* The tasks whose promise was rejected before any worker got them.
RejectedUnassigned == {id \in Ids : promise[id] = "rejected" /\ sent[id] = 0}

\* -------------------------------------------------------------------- claims

\* C1: the status of a record only moves running -> completed or
\* running -> failed; a completed or failed record keeps its status.
C1_StatusFinal ==
  [][\A id \in Ids :
       rec[id].status \in Terminal => rec'[id].status = rec[id].status]_vars

\* C2: the promise of a submit is resolved as soon as the task is accepted,
\* also for a task left in the queue because every worker is busy.
C2_QueuedTaskResolved ==
  \A id \in Ids : Queued(id) => promise[id] = "resolved"

\* C3: totalWorkers never exceeds maxWorkers and busyWorkers never exceeds
\* totalWorkers.
C3_WorkerBound ==
  /\ getStatus.totalWorkers <= maxWorkers
  /\ getStatus.busyWorkers <= getStatus.totalWorkers

\* C3 witness: the pool is full, every worker is busy and a task waits.
C3_Witness ==
  /\ getStatus.totalWorkers = maxWorkers
  /\ getStatus.busyWorkers = maxWorkers
  /\ getStatus.queuedTasks > 0

\* C4: once every "data" message of a channel has been handled, the stored
\* content of the channel is the concatenation of the chunks in the order
\* the worker posted them.
C4_ChunksInOrder ==
  \A id \in Ids : \A stream \in Streams :
    (rec[id].status = "completed" /\ ChannelSettled(id, stream))
      => Stored(id, stream) = PostedBytes(emitted[id], stream)

\* C5: decoding the stored content of a channel yields the bytes the process
\* wrote, whatever the chunks were (checked whenever the chunks end on a
\* character boundary).
C5_RoundTrip ==
  strm.pending = <<>> => ChannelBytes(strm.text, strm.encoded) = strm.raw

\* C6: stdout, stderr and exitCode of a completed or failed record are never
\* modified again.
C6_TerminalFrozen ==
  [][\A id \in Ids :
       rec[id].status \in Terminal =>
         /\ rec'[id].stdout = rec[id].stdout
         /\ rec'[id].stderr = rec[id].stderr
         /\ rec'[id].exitCode = rec[id].exitCode]_vars

\* C7: cancelling a task that is still queued removes it from the queue,
\* rejects its promise and returns true, and the task is never sent to a
\* worker afterwards.
C7_CancelQueued ==
  /\ [][\A id \in Ids :
          (Queued(id) /\ id \in cancelledQueued' \ cancelledQueued) =>
            /\ ~Queued(id)'
            /\ promise'[id] = "rejected"
            /\ cancelRet'[id] = "writing"]_vars
  /\ [](\A id \in cancelledQueued :
          /\ ~Queued(id)
          /\ sent[id] = 0
          /\ \A w \in WorkerIds : currentTask[w] # id)

\* C7 witness: a queued task was cancelled, and the worker has since been
\* free to take work.
C7_Witness ==
  \E id \in cancelledQueued :
    /\ cancelRet[id] = "true"
    /\ \E w \in WorkerIds : w \in SeqToSet(workers) /\ ~busy[w]

\* C8: after cancelCommand(id) returned true for a task assigned to a
\* worker, the record is failed with exitCode -1, and stays so.
C8_CancelledStaysFailed ==
  \A id \in Ids :
    (cancelRet[id] = "true" /\ id \notin cancelledQueued)
      => (rec[id].status = "failed" /\ rec[id].exitCode = -1)

\* C9: a command that cannot be spawned does not make the submit raise: the
\* submit returns, and the record becomes failed with exitCode -1 and a
\* non-empty stderr.
C9_SpawnFailure ==
  /\ [](\A id \in Ids : kind[id] = "nospawn" => runResult[id] # "thrown")
  /\ \A id \in Ids :
       (kind[id] = "nospawn") ~>
         (/\ runResult[id] = "returned"
          /\ rec[id].status = "failed"
          /\ rec[id].exitCode = -1
          /\ rec[id].stderr # <<>>)

\* C9 witness: the record of a command that could not be spawned is failed
\* and its submit has returned.
C9_Witness ==
  \E id \in Ids :
    /\ kind[id] = "nospawn"
    /\ runResult[id] = "returned"
    /\ rec[id].status = "failed"

C11_QueuedEventuallyAssigned ==
  /\ [](\A id \in Ids : Queued(id) => promise[id] = "pending")
  /\ \A id \in Ids : Queued(id) ~> (sent[id] = 1 /\ ~Queued(id))

\* C11 witness: a submission found the pool full and busy and was queued.
C11_Witness ==
  \E id \in Ids :
    /\ Queued(id)
    /\ promise[id] = "pending"
    /\ Len(workers) = maxWorkers
    /\ \A i \in 1..Len(workers) : busy[workers[i]]

\* C12: when a submit returns, the record of the command reads status
\* running, empty stdout and stderr and a null exit code.
C12_FreshAfterSubmit ==
  [][\A id \in Ids :
       (runResult'[id] = "returned" /\ runResult[id] # "returned")
         => rec'[id] = InitialRec]_vars

\* C12 witness: a submit has returned while its process runs, and the record
\* is still the one runCommand inserted.
C12_Witness ==
  \E id \in Ids :
    /\ runResult[id] = "returned"
    /\ wpc[id] = "running"
    /\ rec[id] = InitialRec

\* C13 as stated: the length of the queue is the number of tasks submitted
\* minus the number of tasks assigned to a worker.
C13_QueueCount ==
  Len(queue) = nsub - Assigned

\* C13 amended: the length of the queue is the number of tasks submitted
\* minus the number assigned to a worker minus the number taken out of the
\* queue unassigned, by cancelCommand or by terminate, with their promise
\* rejected.
C13_QueueAccounting ==
  Len(queue) = nsub - Assigned - Cardinality(RejectedUnassigned)

\* C13 witness: one task was assigned and another left the queue unassigned.
C13_Witness ==
  /\ Assigned > 0
  /\ RejectedUnassigned # {}
  /\ nsub = MaxTasks

C15_ConflictRejected ==
  LET nothingCreated == /\ nsub = 0
                        /\ queue = <<>>
                        /\ \A id \in Ids : rec[id] = NoRec /\ sent[id] = 0
      errors == {"conflict", "invalid", "notfound"}
  IN /\ (strm.req.stdin # Undefined /\ strm.req.stdinForOutput # Undefined)
          => /\ strm.req.outcome \in errors
             /\ isOutputId(strm.req.stdinForOutput)
                  => strm.req.outcome = "conflict"
             /\ nothingCreated
     /\ (strm.req.stdinForOutput \notin {Undefined, IdOfA})
          => (strm.req.outcome \in errors /\ nothingCreated)

\* C16: terminate() rejects the promise of every queued task and leaves the
\* pool with no worker, no busy worker and an empty queue; called on a pool
\* it has already shut down it changes nothing.
C16_TerminateIdempotent ==
  [][nterm' # nterm =>
       /\ getStatus'.totalWorkers = 0
       /\ getStatus'.busyWorkers = 0
       /\ getStatus'.queuedTasks = 0
       /\ \A id \in SeqToSet(queue) : promise'[id] = "rejected"
       /\ (workers = <<>> /\ queue = <<>> /\ currentWorkers = 0
           /\ taskResults = [id \in Ids |-> "none"])
            => UNCHANGED <<workers, busy, currentTask, queue, currentWorkers,
                           taskResults, promise, runResult, dbWrites, rec,
                           finishChain>>]_vars

\* C16 witness: terminate() has been called twice, and the first call found a
\* task in the queue.
C16_Witness ==
  /\ nterm = MaxShutdowns
  /\ RejectedUnassigned # {}
  /\ workers = <<>>

\* C17: the exitCode of a record is null exactly while its status is
\* running, and it is written once: an exitCode that has been set never
\* changes.
C17_ExitCodeOnce ==
  [][\A id \in Ids :
       /\ rec'[id].status # "absent" =>
            (rec'[id].exitCode = Null <=> rec'[id].status = "running")
       /\ rec[id].exitCode # Null => rec'[id].exitCode = rec[id].exitCode]_vars

\* C18: once the encoded flag of a channel of a record is true, no stream
\* append and no status update makes it false again.
C18_EncodedNeverReverts ==
  [][\A id \in Ids :
       /\ rec[id].stdoutIsEncoded => rec'[id].stdoutIsEncoded
       /\ rec[id].stderrIsEncoded => rec'[id].stderrIsEncoded]_vars

\* C19: no two submissions obtain the same id, and a runCommand whose id
\* is already in the store fails and leaves the store as it was.
C19_IdsUnique ==
  [][/\ \A i, j \in 1..Len(issued') : i # j => issued'[i] # issued'[j]
     /\ \A id \in Ids :
          (nsub' = nsub + 1 /\ rec[id].status # "absent"
             /\ rec'[id].status # "absent" /\ Len(issued') = Len(issued))
            => rec' = rec]_vars

\* C20: when a worker raises an error event while it runs a task whose
\* submit promise has resolved, the record of that task is marked failed:
\* the handlers of the event issue the write of status failed.
C20_FaultMarksFailed ==
  [][\A id \in Ids :
       (/\ nfault' = nfault + 1
        /\ listener[id] \in WorkerIds /\ listener'[id] = DeadWorker
        /\ wpc[id] = "running"
        /\ promise[id] = "resolved"
        /\ rec[id].status = "running")
         => \/ rec'[id].status = "failed"
            \/ \E op \in dbWrites' : op.id = id /\ op.status = "failed"]_vars

\* C21: after workers have been removed because of worker errors, every
\* task that is in the queue is eventually assigned to a worker, the
\* processes eventually exiting.
C21_ServesAfterFault ==
  \A id \in Ids : Queued(id) ~> (~Queued(id) /\ sent[id] > 0)

\* C22: a worker has at most one task in flight: while the process of a
\* task runs under a worker, that worker is marked busy with this task, so
\* it is not given a second one.
C22_OneTaskPerWorker ==
  \A id \in Ids :
    wpc[id] \in {"running", "killed"}
      => (busy[wthread[id]] /\ currentTask[wthread[id]] = id)

\* C23: when a task finishes, its listeners are removed from its worker,
\* in whatever order the tasks of different workers finish: the listeners
\* attached to a worker are those of its current task; and a message for a
\* task that is no longer the worker's current task changes neither the
\* records (no write is issued) nor the busy state of the workers.
C23_ListenersRemoved ==
  [][/\ \A id \in Ids :
          listener'[id] \in WorkerIds => currentTask'[listener'[id]] = id
     /\ \A w \in WorkerIds :
          (/\ Len(outbox[w]) > 0
           /\ outbox'[w] = Tail(outbox[w])
           /\ currentTask[w] # Head(outbox[w]).id)
            => UNCHANGED <<busy, currentTask, dbWrites, dbAppends>>]_vars

\* C24: on a worker's failure message for a task the pool issues the write
\* of status failed and exitCode -1 and the worker becomes idle or gets the
\* head of the queue; when the write completes on the running record, the
\* record is failed with exitCode -1 and its stderr is the stderr captured
\* so far followed by the error message.
C24_FailureAugmentsStderr ==
  [][/\ \A w \in WorkerIds :
          (/\ Len(outbox[w]) > 0
           /\ outbox'[w] = Tail(outbox[w])
           /\ Head(outbox[w]).type = "error"
           /\ listener[Head(outbox[w]).id] = w
           /\ currentTask[w] = Head(outbox[w]).id)
            => /\ \E op \in dbWrites' \ dbWrites :
                    /\ op.id = Head(outbox[w]).id
                    /\ op.status = "failed" /\ op.exitCode = -1
               /\ IF queue = <<>> THEN ~busy'[w]
                  ELSE currentTask'[w] = Head(queue) /\ queue' = Tail(queue)
     /\ \A op \in dbWrites \ dbWrites' :
          (op.status = "failed" /\ op.then = "none"
           /\ rec[op.id].status = "running")
            => /\ rec'[op.id].status = "failed"
               /\ rec'[op.id].exitCode = -1
               /\ rec'[op.id].stderr = rec[op.id].stderr \o op.stderr]_vars

\* C25: on a worker's 'complete' message with exit code c the pool issues
\* the write of status completed and exitCode c, the worker becomes idle
\* unless the queue is non-empty, in which case the head of the queue is
\* assigned in the same step; when the write completes, the record is
\* completed with exitCode c.
C25_CompleteHandled ==
  [][/\ \A w \in WorkerIds :
          (/\ Len(outbox[w]) > 0
           /\ outbox'[w] = Tail(outbox[w])
           /\ nfault' = nfault /\ nterm' = nterm
           /\ Head(outbox[w]).type = "complete"
           /\ listener[Head(outbox[w]).id] = w)
            => /\ \E op \in dbWrites' :
                    /\ op.id = Head(outbox[w]).id
                    /\ op.status = "completed"
                    /\ op.exitCode = Head(outbox[w]).code
               /\ IF queue = <<>> THEN ~busy'[w]
                  ELSE /\ queue' = Tail(queue)
                       /\ sent'[Head(queue)] = sent[Head(queue)] + 1
                       /\ \E v \in WorkerIds :
                            busy'[v] /\ currentTask'[v] = Head(queue)
     /\ \A op \in dbWrites \ dbWrites' :
          op.status = "completed"
            => /\ rec'[op.id].status = "completed"
               /\ rec'[op.id].exitCode = op.exitCode]_vars

\* C25 witness: a command has completed with a non-zero exit code, and the
\* task that waited in the queue behind it has been assigned.
C25_Witness ==
  /\ maxWorkers = 1
  /\ \E id \in Ids : rec[id].status = "completed" /\ rec[id].exitCode = 1
  /\ \E id \in Ids : sent[id] = 1 /\ rec[id].status = "running"
                       /\ \E w \in WorkerIds : currentTask[w] = id

\* C26: tasks are sent to workers in submission order: when a task has been
\* sent to a worker, every task submitted before it has been sent too,
\* unless it was cancelled while it waited.  (Ids are given out in
\* submission order.)
C26_FifoAssignment ==
  \A a, b \in Ids :
    (a < b /\ sent[b] > 0 /\ a \notin cancelledQueued) => sent[a] > 0

\* C26 witness: of two tasks that waited, the one submitted first has been
\* sent to the worker and the other is still in the queue.
C26_Witness ==
  /\ queue = <<3>>
  /\ sent[2] = 1
  /\ taskResults[1] # "none"
  /\ cancelledQueued = {}

\* C27: the pool is work-conserving: a task waits in the queue only if the
\* pool holds maxWorkers workers and every one of them is busy.
C27_WorkConserving ==
  queue # <<>> =>
    /\ Len(workers) = maxWorkers
    /\ \A i \in 1..Len(workers) : busy[workers[i]]

\* C28: for a task assigned to a worker, the pool's cancelCommand returns
\* what the worker's cancel finds: when the worker handles the "cancel"
\* message, true has been returned exactly if the process of the task is
\* running under the worker at that moment.
C28_CancelResult ==
  [][\A w \in WorkerIds :
       (/\ Len(inbox[w]) > 0
        /\ inbox'[w] = Tail(inbox[w])
        /\ nfault' = nfault /\ nterm' = nterm
        /\ Head(inbox[w]).type = "cancel")
         => (cancelRet[Head(inbox[w]).id] \in {"writing", "true"}
               <=> wpc[Head(inbox[w]).id] = "running")]_vars

\* C29: every promise returned by executeCommand eventually settles,
\* resolved or rejected, also that of a task that had been handed to a worker
\* and whose "started" message had not been handled when terminate() ran.
C29_PromiseSettles ==
  \A id \in Ids :
    (promise[id] = "pending") ~> (promise[id] \in {"resolved", "rejected"})

\* C30: after terminate() the record of an execution that was assigned to
\* a worker when terminate() ran does not stay running for ever: it
\* eventually reaches status completed or failed.
C30_TerminatedNotRunning ==
  \A id \in Ids :
    (nterm > 0 /\ listener[id] = DeadWorker /\ rec[id].status = "running")
      ~> (rec[id].status \in Terminal)

\* C31: when writing the supplied stdin to the spawned process fails, the
\* worker reports the execution as failed: it posts no 'complete' message
\* for it, and the record does not become completed.
C31_StdinFailureFails ==
  \A id \in Ids :
    kind[id] = "stdinfail" =>
      /\ rec[id].status # "completed"
      /\ \A w \in WorkerIds : \A i \in 1..Len(outbox[w]) :
           ~(outbox[w][i].id = id /\ outbox[w][i].type = "complete")


\* C32: a completion write that cannot be persisted is retried or surfaced:
\* once the pool has recorded a task's result, the record is completed or
\* failed, or a write for it is still on its way, so it never stays running
\* with nothing left to change it.
C32_CompletionPersisted ==
  \A id \in Ids :
    taskResults[id] # "none" =>
      \/ rec[id].status \in Terminal
      \/ \E op \in dbWrites : op.id = id


\* C33: a store error during a stream append is not propagated: the chunk's
\* append ends inside updateStreamOutput, whose catch is the one that logs
\* it, and the step leaves the pool (workers, busy flags, assignments, queue,
\* listeners, results, promises) and the messages in flight as they were.
C33_AppendErrorContained ==
  [][\A op \in dbAppends \ dbAppends' :
       errlog' # errlog =>
         /\ errlog' = errlog \cup {Logged(op.id, "updateStreamOutput")}
         /\ UNCHANGED <<workers, busy, currentTask, queue, currentWorkers,
                        taskResults, finishChain, listener, promise,
                        runResult, inbox, outbox, dbWrites>>]_vars

\* A chunk's append has failed while its worker is still assigned to the task.
C33_Witness ==
  \E id \in Ids, w \in WorkerIds :
    /\ Logged(id, "updateStreamOutput") \in errlog
    /\ busy[w]
    /\ currentTask[w] = id
    /\ rec[id].status = "running"


\* C34: a stream append on one channel changes only that channel's content
\* and encoded flag: the step that writes a chunk to stdout leaves stderr, its
\* flag, status and exitCode as they were, and likewise for stderr, so the
\* appends of the two channels never overwrite each other.
C34_AppendFrame ==
  [][\A op \in dbAppends \ dbAppends' :
       (op.phase = "write" /\ dbWrites' = dbWrites) =>
         /\ rec'[op.id].status = rec[op.id].status
         /\ rec'[op.id].exitCode = rec[op.id].exitCode
         /\ op.stream = "stdout" =>
              /\ rec'[op.id].stderr = rec[op.id].stderr
              /\ rec'[op.id].stderrIsEncoded = rec[op.id].stderrIsEncoded
         /\ op.stream = "stderr" =>
              /\ rec'[op.id].stdout = rec[op.id].stdout
              /\ rec'[op.id].stdoutIsEncoded = rec[op.id].stdoutIsEncoded
         /\ \A other \in Ids \ {op.id} : rec'[other] = rec[other]]_vars

\* Both channels of a running execution hold appended data.
C34_Witness ==
  \E id \in Ids :
    /\ rec[id].status = "running"
    /\ rec[id].stdout # <<>>
    /\ rec[id].stderr # <<>>


\* C35: in every reachable state a channel whose encoded flag is true holds
\* valid base64; in particular no failure or cancellation update leaves
\* stderrIsEncoded true over a plain-text error message.
C35_EncodedIsBase64 ==
  \A id \in Ids :
    /\ rec[id].stdoutIsEncoded => IsBase64(rec[id].stdout)
    /\ rec[id].stderrIsEncoded => IsBase64(rec[id].stderr)


\* C36: isBinaryData answers true exactly when a NUL byte is among the first
\* 1024 bytes of the chunk or more than one in ten of its first 1024 bytes
\* (of all its bytes when it has fewer) are control characters other than
\* tab, newline and carriage return.
C36_BinaryRule ==
  call.fn = "isBinaryData" =>
    LET data == call.args
        head == 1..Min(Len(data), 1024)
        controls == {i \in head : data[i] < 32 /\ data[i] \notin {9, 10, 13}}
    IN call.result[1] <=>
         \/ \E i \in head : data[i] = 0
         \/ Cardinality(controls) * 10 > Cardinality(head)


\* C37: deleteExpiredOutputs(d) deletes exactly the records created more than
\* d days before now, keeps the others, and returns the number it deleted,
\* the records carrying the createdAt that insertOutput writes.
C37_SweepExact ==
  call.fn = "deleteExpiredOutputs" =>
    LET now == call.args[1]
        d == call.args[2]
        created == call.args[3]
        expired == {i \in 1..Len(created) :
                      getTime(created[i]) < getTime(now) - d * 24 * 3600000}
    IN /\ call.result[1] = expired
       /\ call.result[2] = Cardinality(expired)


\* C38: the first use of the store creates one client, runs the expiry sweep
\* exactly once and hands back a handle; no call fails, and a call that has
\* returned leaves db set and the sweep done once, later calls included.
C38_InitOnce ==
  /\ drizzle.clients <= 1
  /\ drizzle.sweeps <= 1
  /\ \A c \in Callers :
       /\ drizzle.pc[c] # "failed"
       /\ drizzle.pc[c] = "done" => (drizzle.db /\ drizzle.sweeps = 1)


\* C39: an execution id is handed to at most one worker, and when the pool
\* handles a message of a worker, the writes and appends it issues are for
\* the record named in the message, whose task was handed to that worker:
\* no record is written on behalf of two workers.
C39_OneWorkerPerRecord ==
  [][/\ \A id \in Ids : sent'[id] <= 1
     /\ \A w \in WorkerIds :
          (/\ Len(outbox[w]) > 0
           /\ outbox'[w] = Tail(outbox[w])
           /\ nfault' = nfault /\ nterm' = nterm)
            => \A op \in (dbWrites' \ dbWrites) \cup (dbAppends' \ dbAppends) :
                 /\ op.id = Head(outbox[w]).id
                 /\ wthread[op.id] = w
                 /\ \A v \in WorkerIds \ {w} :
                      \A i \in 1..Len(inbox[v]) : inbox[v][i].id # op.id]_vars

\* Two workers have each had a task, and the records of both tasks have been
\* written for them: a chunk appended and the completion.
C39_Witness ==
  \E a, b \in Ids :
    /\ a # b
    /\ wthread[a] \in WorkerIds /\ wthread[b] \in WorkerIds
    /\ wthread[a] # wthread[b]
    /\ rec[a].status = "completed"
    /\ rec[b].status = "completed"
    /\ rec[a].stdout # <<>> \/ rec[a].stderr # <<>>
       \/ rec[b].stdout # <<>> \/ rec[b].stderr # <<>>


\* C40: evaluateRules returns the result of the first rule, in list order,
\* among the matching rules whose action has the highest priority (block,
\* then warning, then confirm, then approve), and {action: "skip"} when no
\* rule matches or every match is a skip.
C40_HighestPriorityFirst ==
  call.fn = "evaluateRules" =>
    LET rules == call.args
        Rank(a) == IF a = "block" THEN 1 ELSE IF a = "warning" THEN 2
                   ELSE IF a = "confirm" THEN 3 ELSE 4
        matching == {i \in 1..Len(rules) :
                       rules[i].action \in RuleActions \ {"skip"}}
        best == {i \in matching :
                   \A j \in matching : Rank(rules[i].action)
                                         <= Rank(rules[j].action)}
    IN IF matching = {} THEN call.result[1] = SkipResult
       ELSE \E i \in best : /\ \A j \in best : i <= j
                            /\ call.result[1] = rules[i]

\* Three rules match: the winner is not the first of the list, and a later
\* rule has the winner's action with another reason.
C40_Witness ==
  /\ call.fn = "evaluateRules"
  /\ Len(call.args) = 3
  /\ call.args[1] = RuleResult("approve", "first")
  /\ call.args[2] = RuleResult("warning", "second")
  /\ call.args[3] = RuleResult("warning", "first")
  /\ call.result[1] = RuleResult("warning", "second")

====
